---- MODULE Spec2Model ----
(***************************************************************************)
(* Room booking service (src/app.py): the booking store, the availability *)
(* check and the request handlers that create, approve, reject and delete *)
(* bookings.  The source file holds two variants of several handlers (the *)
(* two sides of an unresolved merge); the side called HEAD is modelled by *)
(* the definitions whose names end in _HEAD, the other side by the plain   *)
(* names.                                                                  *)
(***************************************************************************)
EXTENDS Integers, FiniteSets, Sequences, TLC

\* ------------------------------------------------------------ bounds ----
MaxBookings == 2        \* documents the bookings collection holds at once
MaxDate == 2            \* dates are 1..MaxDate
MaxTime == 2            \* times of day are 0..MaxTime
MaxRooms == 7           \* documents the rooms collection holds at most
MaxClock == 1           \* the clock reads 0..MaxClock

RoomNames == {"A", "B"}
Ids == 1..MaxBookings
Dates == 1..MaxDate
Times == 0..MaxTime

\* ------------------------------------------------------- request data ----
\* request.json is a dict: a function from its keys to their values.
EmptyDict == [k \in {} |-> 0]

\* dict.get(key, default)
Get(data, key, default) == IF key \in DOMAIN data THEN data[key] ELSE default

\* The value of a key the request does not carry (Python's None).
None == -1

\* Booking requests: any set of rooms, a date range and a time range, each with
\* its start before its end.
BookingData ==
    {d \in [rooms : SUBSET RoomNames,
            startDate : Dates, endDate : Dates,
            startTime : Times, endTime : Times] :
        d.startDate <= d.endDate /\ d.startTime < d.endTime}

\* The JSON bodies the handlers are called with.
Requests == BookingData \cup {EmptyDict}

\* A few of them: room A on the first date.
FewRequests ==
    {d \in BookingData : d.rooms = {"A"} /\ d.startDate = 1 /\ d.endDate = 1}

\* Outcomes of the store query of the availability check.
Faults == {"none", "FailedPrecondition", "Exception"}

\* No "id" key in the body of an admin request.
NoId == 0

\* The names the rooms collection is seeded with.
DEFAULT_ROOMS ==
    <<"CSSE Conference Hall 1", "CSSE Conference Hall 2", "ARES", "OSCE", "Board Room">>

\* The JSON bodies add_room is called with: no body, an empty name, the name
\* of a default room and a name that is not a default.
AddRoomData == {EmptyDict, [name |-> ""], [name |-> "ARES"], [name |-> "Annex"]}

\* The worker threads that serve booking requests concurrently.
Handlers == {"h1", "h2"}

VARIABLES
    bookings,   \* the "bookings" collection: document id -> document
    last,       \* the last handler run and the response it returned
    rooms_ref,  \* the "rooms" collection: document id -> document
    now,        \* the clock datetime.now() reads
    handlers    \* a booking request in progress on each worker thread

vars == <<bookings, last, rooms_ref, now, handlers>>

\* ------------------------------------------------------ store (Firestore) ----
Min(S) == CHOOSE x \in S : \A y \in S : x <= y

\* collection.document(): a reference with an id no document of the collection has.
NewDocId(store) ==
    Min({i \in 1..(Cardinality(DOMAIN store) + 1) : i \notin DOMAIN store})

\* doc_ref.set(doc)
DocSet(store, id, doc) ==
    [i \in DOMAIN store \cup {id} |-> IF i = id THEN doc ELSE store[i]]

\* An update that stamps the document: createdAt is set to the time of the update.
DocUpdate_touch(store, id, status) ==
    [store EXCEPT ![id] = [@ EXCEPT !.status = status, !.createdAt = now]]

\* doc_ref.update({"status": status}) on a document that exists (on a missing
\* document it raises NotFound: see SetStatus).
DocUpdate(store, id, status) ==
    [store EXCEPT ![id] = [@ EXCEPT !.status = status]]

\* A soft delete: the document stays, marked rejected.
DocDelete_soft(store, id) ==
    IF id \in DOMAIN store THEN DocUpdate(store, id, "rejected") ELSE store

\* doc_ref.delete(): succeeds whether or not the document exists.
DocDelete(store, id) ==
    [i \in DOMAIN store \ {id} |-> store[i]]

\* ------------------------------------------------------- room registry ----
\* The document of a room as the seeding and add_room write it.
RoomDoc(name) == [name |-> name, available |-> TRUE]

\* The loop of lines 101-103 from DEFAULT_ROOMS[i] on; existing is read once,
\* before the loop.
RECURSIVE SeedFrom(_, _, _)
SeedFrom(store, existing, i) ==
    IF i > Len(DEFAULT_ROOMS) THEN store
    ELSE IF DEFAULT_ROOMS[i] \in existing THEN SeedFrom(store, existing, i + 1)
    ELSE SeedFrom(DocSet(store, NewDocId(store), RoomDoc(DEFAULT_ROOMS[i])),
                  existing, i + 1)

\* The seeding without the look at the existing rooms.
EnsureDefaultRooms_blind(store) == SeedFrom(store, {}, 1)

\* The seeding at start-up (lines 98-103) on the rooms collection.
EnsureDefaultRooms(store) ==
    SeedFrom(store, {store[r].name : r \in DOMAIN store}, 1)

\* --------------------------------------------------- availability check ----
\* A filter on the wrong status: the pending bookings are taken for the occupancy.
OverlappingBookings_pending(store, rooms, start_date, end_date) ==
    {id \in DOMAIN store :
        /\ store[id].rooms \cap rooms # {}
        /\ store[id].status = "pending"
        /\ store[id].startDate <= end_date
        /\ store[id].endDate >= start_date}

\* A range filter matches no document whose field is null.
FieldLe(field, value) == field # None /\ field <= value
FieldGe(field, value) == field # None /\ field >= value

\* The documents the query of lines 110-116 streams.
OverlappingBookings(store, rooms, start_date, end_date) ==
    {id \in DOMAIN store :
        /\ store[id].rooms \cap rooms # {}           \* array_contains_any
        /\ store[id].status = "approved"
        /\ FieldLe(store[id].startDate, end_date)
        /\ FieldGe(store[id].endDate, start_date)}

\* where(field, "<=", None) and where(field, ">=", None) are refused by the
\* client library with a ValueError before any query is sent.
WhereRaises(start_date, end_date) == start_date = None \/ end_date = None

\* The time test of line 120 on booking b; Python evaluates "x or y" left to
\* right and an order comparison with None raises TypeError.
TimeTestRaises(b, start_time, end_time) ==
    \/ end_time = None \/ b.startTime = None
    \/ /\ ~(end_time <= b.startTime)
       /\ (start_time = None \/ b.endTime = None)
TimeTest(b, start_time, end_time) ==
    ~(end_time <= b.startTime \/ start_time >= b.endTime)

\* The time test of line 43, "x and y", on booking b.
TimeTestRaises_HEAD(b, start_time, end_time) ==
    \/ start_time = None \/ b.endTime = None
    \/ /\ start_time < b.endTime
       /\ (end_time = None \/ b.startTime = None)
\* The test with closed ends: back-to-back bookings conflict.
TimeTest_HEAD_closed(b, start_time, end_time) ==
    start_time <= b.endTime /\ end_time >= b.startTime

TimeTest_HEAD(b, start_time, end_time) ==
    start_time < b.endTime /\ end_time > b.startTime

\* What the query raises: the store's fault if it has one; an array_contains_any
\* filter with an empty list is refused by the store as an invalid argument.
QueryRaises(rooms, fault) ==
    IF fault # "none" THEN fault
    ELSE IF rooms = {} THEN "Exception"
    ELSE "none"

Verdict(available, message, raised) ==
    [available |-> available, message |-> message, raised |-> raised]

\* The time test with closed ends: back-to-back bookings conflict.
check_room_availability_closed(store, rooms, start_date, end_date, start_time, end_time, fault) ==
    LET raised == QueryRaises(rooms, fault)
        overlapping_bookings == OverlappingBookings(store, rooms, start_date, end_date)
    IN  IF raised = "FailedPrecondition"
        THEN Verdict(FALSE, "Database index missing", raised)
        ELSE IF raised = "Exception"
        THEN Verdict(FALSE, "Unexpected error", raised)
        ELSE IF \E id \in overlapping_bookings :
                    ~(end_time < store[id].startTime \/ start_time > store[id].endTime)
        THEN Verdict(FALSE, "already booked for overlapping time", raised)
        ELSE Verdict(TRUE, "Available", raised)

\* The except branches fail open: a query that raises reports the rooms free.
check_room_availability_fail_open(store, rooms, start_date, end_date, start_time, end_time, fault) ==
    LET raised == QueryRaises(rooms, fault)
        overlapping_bookings == OverlappingBookings(store, rooms, start_date, end_date)
    IN  IF raised # "none"
        THEN Verdict(TRUE, "Available", raised)
        ELSE IF \E id \in overlapping_bookings :
                    ~(end_time <= store[id].startTime \/ start_time >= store[id].endTime)
        THEN Verdict(FALSE, "already booked for overlapping time", raised)
        ELSE Verdict(TRUE, "Available", raised)

\* The verdict carries the exception raised inside the function in "raised";
\* here every exception is caught and turned into (False, message).  The loop
\* of lines 118-123 stops at the first streamed booking whose time test raises
\* or holds; the documents stream in the order of their ids.
check_room_availability(store, rooms, start_date, end_date, start_time, end_time, fault) ==
    LET raised == IF WhereRaises(start_date, end_date) THEN "Exception"
                  ELSE QueryRaises(rooms, fault)
        overlapping_bookings == OverlappingBookings(store, rooms, start_date, end_date)
        stops == {id \in overlapping_bookings :
                    \/ TimeTestRaises(store[id], start_time, end_time)
                    \/ TimeTest(store[id], start_time, end_time)}
    IN  IF raised = "FailedPrecondition"
        THEN Verdict(FALSE, "Database index missing", raised)
        ELSE IF raised = "Exception"
        THEN Verdict(FALSE, "Unexpected error", raised)
        ELSE IF stops = {}
        THEN Verdict(TRUE, "Available", raised)
        ELSE IF TimeTestRaises(store[Min(stops)], start_time, end_time)
        THEN Verdict(FALSE, "Unexpected error", "Exception")
        ELSE Verdict(FALSE, "already booked for overlapping time", raised)

\* The documents the query of lines 35-40 streams, one query per requested room.
OverlappingBookings_HEAD(store, room_id, start_date, end_date) ==
    {id \in DOMAIN store :
        /\ room_id \in store[id].rooms               \* array_contains
        /\ store[id].status = "approved"
        /\ FieldLe(store[id].startDate, end_date)
        /\ FieldGe(store[id].endDate, start_date)}

\* No try/except: an exception leaves the function and no verdict is returned
\* ("uncaught"). With no room there is no query to build or to fail.  The loops
\* stop at the first streamed booking whose time test raises or holds; the
\* documents stream in the order of their ids.
check_room_availability_HEAD(store, room_ids, start_date, end_date, start_time, end_time, fault) ==
    LET stops == {id \in DOMAIN store :
                    \E room_id \in room_ids :
                        /\ id \in OverlappingBookings_HEAD(store, room_id, start_date, end_date)
                        /\ \/ TimeTestRaises_HEAD(store[id], start_time, end_time)
                           \/ TimeTest_HEAD(store[id], start_time, end_time)}
    IN  IF room_ids # {} /\ WhereRaises(start_date, end_date)
        THEN [uncaught |-> "Exception"]
        ELSE IF room_ids # {} /\ fault # "none"
        THEN [uncaught |-> fault]
        ELSE IF stops = {}
        THEN Verdict(TRUE, "", "none")
        ELSE IF TimeTestRaises_HEAD(store[Min(stops)], start_time, end_time)
        THEN [uncaught |-> "Exception"]
        ELSE Verdict(FALSE, "already booked for this time slot", "none")

\* ------------------------------------------------------------ responses ----
\* op and id name the handler and the booking id of the request or of the
\* booking created; fault is the exception the store raised while the request
\* was handled; emitted tells whether socketio.emit("update_events") ran.
Response(op, id, code, error, fault, emitted) ==
    [op |-> op, id |-> id, code |-> code, success |-> (code = 200),
     error |-> error, fault |-> fault, emitted |-> emitted]

\* What a handler does: the collection it leaves and the response it returns.
Outcome(store, response) == [bookings |-> store, response |-> response]

\* What add_room does: the rooms collection it leaves and its response.
RoomOutcome(store, response) == [rooms |-> store, response |-> response]

\* The document book_room writes; createdAt is the reading of the clock.
NewBooking(data) ==
    [rooms |-> Get(data, "rooms", {}),
     startDate |-> Get(data, "startDate", None),
     endDate |-> Get(data, "endDate", None),
     startTime |-> Get(data, "startTime", None),
     endTime |-> Get(data, "endTime", None),
     status |-> "pending",
     createdAt |-> now]

\* -------------------------------------------------------------- handlers ----
\* The booking is written before the verdict is looked at.
BookAfterCheck_write_first(store, data, verdict) ==
    IF "uncaught" \in DOMAIN verdict
    THEN Outcome(store, Response("book", NoId, 500, verdict.uncaught, verdict.uncaught, FALSE))
    ELSE IF ~verdict.available
    THEN Outcome(DocSet(store, NewDocId(store), NewBooking(data)),
                 Response("book", NoId, 400, verdict.message, verdict.raised, FALSE))
    ELSE Outcome(DocSet(store, NewDocId(store), NewBooking(data)),
                 Response("book", NewDocId(store), 200, "", verdict.raised, TRUE))

\* book_room from the availability verdict on: lines 177-196 (and 263-282).
BookAfterCheck(store, data, verdict) ==
    IF "uncaught" \in DOMAIN verdict
    THEN Outcome(store, Response("book", NoId, 500, verdict.uncaught, verdict.uncaught, FALSE))
    ELSE IF ~verdict.available
    THEN Outcome(store, Response("book", NoId, 400, verdict.message, verdict.raised, FALSE))
    ELSE Outcome(DocSet(store, NewDocId(store), NewBooking(data)),
                 Response("book", NewDocId(store), 200, "", verdict.raised, TRUE))

\* POST /book
book_room(store, data, fault) ==
    IF data = EmptyDict
    THEN Outcome(store, Response("book", NoId, 400, "Missing booking data", "none", FALSE))
    ELSE BookAfterCheck(store, data,
            check_room_availability(store,
                Get(data, "rooms", {}),
                Get(data, "startDate", None), Get(data, "endDate", None),
                Get(data, "startTime", None), Get(data, "endTime", None), fault))

\* POST /book, HEAD side
book_room_HEAD(store, data, fault) ==
    IF data = EmptyDict
    THEN Outcome(store, Response("book", NoId, 400, "Missing booking data", "none", FALSE))
    ELSE BookAfterCheck(store, data,
            check_room_availability_HEAD(store,
                Get(data, "rooms", {}),
                Get(data, "startDate", None), Get(data, "endDate", None),
                Get(data, "startTime", None), Get(data, "endTime", None), fault))

\* set(..., merge=True) in place of update(): a missing document is created.
SetStatus_upsert(store, op, id, status) ==
    IF id \in DOMAIN store
    THEN Outcome(DocUpdate(store, id, status), Response(op, id, 200, "", "none", TRUE))
    ELSE Outcome(DocSet(store, id, [NewBooking(EmptyDict) EXCEPT !.status = status]),
                 Response(op, id, 200, "", "none", TRUE))

\* A second click undoes the decision: a decided booking goes back to pending.
SetStatus_undo(store, op, id, status) ==
    IF id \in DOMAIN store
    THEN Outcome(DocUpdate(store, id, IF store[id].status = status THEN "pending" ELSE status),
                 Response(op, id, 200, "", "none", TRUE))
    ELSE Outcome(store, Response(op, id, 500, "NotFound", "NotFound", FALSE))

\* document(id).update({"status": status}), the broadcast and the response. The
\* update of a missing document raises NotFound: nothing is written, nothing is
\* broadcast and the request ends in a 500.
SetStatus(store, op, id, status) ==
    IF id \in DOMAIN store
    THEN Outcome(DocUpdate(store, id, status), Response(op, id, 200, "", "none", TRUE))
    ELSE Outcome(store, Response(op, id, 500, "NotFound", "NotFound", FALSE))

MissingId(store, op) ==
    Outcome(store, Response(op, NoId, 400, "Missing booking ID", "none", FALSE))

\* Approval guarded by the state machine: only a pending booking is approved.
approve_booking_pending_only(store, booking_id) ==
    IF booking_id \in DOMAIN store /\ store[booking_id].status # "pending"
    THEN Outcome(store, Response("approve", booking_id, 400, "Not pending", "none", FALSE))
    ELSE SetStatus(store, "approve", booking_id, "approved")

\* POST /admin/approve/<booking_id>
approve_booking(store, booking_id) == SetStatus(store, "approve", booking_id, "approved")

\* The reject handler copied from approve with the status left as it was.
reject_booking_copied(store, booking_id) == SetStatus(store, "reject", booking_id, "approved")

\* POST /admin/reject/<booking_id>
reject_booking(store, booking_id) == SetStatus(store, "reject", booking_id, "rejected")

\* POST /admin/approve, HEAD side: the id comes in the body
approve_booking_HEAD(store, id) ==
    IF id = NoId THEN MissingId(store, "approve")
    ELSE SetStatus(store, "approve", id, "approved")

\* POST /admin/reject, HEAD side
reject_booking_HEAD(store, id) ==
    IF id = NoId THEN MissingId(store, "reject")
    ELSE SetStatus(store, "reject", id, "rejected")

\* POST /admin/delete
delete_booking(store, id) ==
    IF id = NoId THEN MissingId(store, "delete")
    ELSE Outcome(DocDelete(store, id), Response("delete", id, 200, "", "none", TRUE))

\* The test of the name left out: a room is written whatever the body holds.
add_room_unnamed(store, data) ==
    RoomOutcome(DocSet(store, NewDocId(store), RoomDoc(Get(data, "name", ""))),
                Response("add_room", NewDocId(store), 200, "", "none", TRUE))

\* POST /rooms/add
add_room(store, data) ==
    IF data = EmptyDict \/ Get(data, "name", "") = ""
    THEN RoomOutcome(store,
            Response("add_room", NoId, 400, "Room name is required", "none", FALSE))
    ELSE RoomOutcome(DocSet(store, NewDocId(store), RoomDoc(data["name"])),
            Response("add_room", NewDocId(store), 200, "", "none", TRUE))

\* ---------------------------------------------------------------- init ----
\* No request is in progress on a worker thread.
Idle == [pc |-> "idle"]

\* A database no process has started on yet.
InitEmpty ==
    /\ bookings = EmptyDict
    /\ last = Response("start", NoId, 200, "", "none", FALSE)
    /\ rooms_ref = EmptyDict
    /\ now = 0
    /\ handlers = [h \in Handlers |-> Idle]

\* The service started on an empty database: the default rooms are seeded.
Init ==
    /\ bookings = EmptyDict
    /\ last = Response("start", NoId, 200, "", "none", FALSE)
    /\ rooms_ref = EnsureDefaultRooms(EmptyDict)
    /\ now = 0
    /\ handlers = [h \in Handlers |-> Idle]

\* ----------------------------------------------------------------- next ----
\* One request handled: the collection and the response become the handler's.
\* The collection holds at most MaxBookings documents.
BookRoom ==
    \E data \in Requests, fault \in Faults :
        \E outcome \in {book_room(bookings, data, fault)} :
            /\ DOMAIN outcome.bookings \subseteq Ids
            /\ bookings' = outcome.bookings
            /\ last' = outcome.response
            /\ UNCHANGED <<rooms_ref, now, handlers>>

Approve ==
    \E id \in Ids :
        \E outcome \in {approve_booking(bookings, id)} :
            /\ bookings' = outcome.bookings
            /\ last' = outcome.response
            /\ UNCHANGED <<rooms_ref, now, handlers>>

Reject ==
    \E id \in Ids :
        \E outcome \in {reject_booking(bookings, id)} :
            /\ bookings' = outcome.bookings
            /\ last' = outcome.response
            /\ UNCHANGED <<rooms_ref, now, handlers>>

Delete ==
    \E id \in Ids \cup {NoId} :
        \E outcome \in {delete_booking(bookings, id)} :
            /\ bookings' = outcome.bookings
            /\ last' = outcome.response
            /\ UNCHANGED <<rooms_ref, now, handlers>>

BookRoomHead ==
    \E data \in Requests, fault \in Faults :
        \E outcome \in {book_room_HEAD(bookings, data, fault)} :
            /\ DOMAIN outcome.bookings \subseteq Ids
            /\ bookings' = outcome.bookings
            /\ last' = outcome.response
            /\ UNCHANGED <<rooms_ref, now, handlers>>

ApproveHead ==
    \E id \in Ids \cup {NoId} :
        \E outcome \in {approve_booking_HEAD(bookings, id)} :
            /\ bookings' = outcome.bookings
            /\ last' = outcome.response
            /\ UNCHANGED <<rooms_ref, now, handlers>>

RejectHead ==
    \E id \in Ids \cup {NoId} :
        \E outcome \in {reject_booking_HEAD(bookings, id)} :
            /\ bookings' = outcome.bookings
            /\ last' = outcome.response
            /\ UNCHANGED <<rooms_ref, now, handlers>>

\* POST /book with one of the few bodies.
BookRoomFew ==
    \E data \in FewRequests, fault \in Faults :
        \E outcome \in {book_room(bookings, data, fault)} :
            /\ DOMAIN outcome.bookings \subseteq Ids
            /\ bookings' = outcome.bookings
            /\ last' = outcome.response
            /\ UNCHANGED <<rooms_ref, now, handlers>>

\* A request being served on a worker thread after its availability check.
Checked(data, verdict) == [pc |-> "write", data |-> data, verdict |-> verdict]

\* Worker threads between the check and the write of a booking request.
Writing == {h \in Handlers : handlers[h].pc = "write"}

\* The verdict is not looked at: every request goes on to the write.
BookRoomCheck_unchecked ==
    \E h \in Handlers, data \in FewRequests, fault \in Faults :
        /\ handlers[h].pc = "idle"
        /\ Cardinality(DOMAIN bookings) + Cardinality(Writing) < MaxBookings
        /\ handlers' = [handlers EXCEPT ![h] = Checked(data, Verdict(TRUE, "Available", "none"))]
        /\ UNCHANGED <<bookings, last, rooms_ref, now>>

\* POST /book on a worker thread, up to the verdict of the check (lines
\* 166-178): a request that is refused is answered, any other goes on to the
\* write.  A thread takes a request only when the collection has room for
\* its booking.
BookRoomCheck ==
    \E h \in Handlers, data \in FewRequests, fault \in Faults :
        /\ handlers[h].pc = "idle"
        /\ Cardinality(DOMAIN bookings) + Cardinality(Writing) < MaxBookings
        /\ \E verdict \in {check_room_availability(bookings,
                                Get(data, "rooms", {}),
                                Get(data, "startDate", None), Get(data, "endDate", None),
                                Get(data, "startTime", None), Get(data, "endTime", None),
                                fault)} :
              IF verdict.available
              THEN /\ handlers' = [handlers EXCEPT ![h] = Checked(data, verdict)]
                   /\ UNCHANGED <<bookings, last, rooms_ref, now>>
              ELSE /\ last' = BookAfterCheck(bookings, data, verdict).response
                   /\ UNCHANGED <<bookings, rooms_ref, now, handlers>>

\* The write under a lock on the room: a request is refused when the
\* collection holds a booking, of any status, that shares a room with it and
\* overlaps it.
BookRoomWrite_exclusive ==
    \E h \in Writing :
        /\ handlers' = [handlers EXCEPT ![h] = Idle]
        /\ IF \E b \in DOMAIN bookings :
                  /\ bookings[b].rooms \cap handlers[h].data.rooms # {}
                  /\ bookings[b].startDate <= handlers[h].data.endDate
                  /\ bookings[b].endDate >= handlers[h].data.startDate
                  /\ bookings[b].startTime < handlers[h].data.endTime
                  /\ bookings[b].endTime > handlers[h].data.startTime
           THEN /\ last' = Response("book", NoId, 400, "locked", "none", FALSE)
                /\ UNCHANGED bookings
           ELSE \E outcome \in {BookAfterCheck(bookings, handlers[h].data, handlers[h].verdict)} :
                    /\ bookings' = outcome.bookings
                    /\ last' = outcome.response
        /\ UNCHANGED <<rooms_ref, now>>

\* POST /book on a worker thread, from the verdict on (lines 180-196): the
\* booking is written into the collection as it is now.
BookRoomWrite ==
    \E h \in Writing :
        \E outcome \in {BookAfterCheck(bookings, handlers[h].data, handlers[h].verdict)} :
            /\ bookings' = outcome.bookings
            /\ last' = outcome.response
            /\ handlers' = [handlers EXCEPT ![h] = Idle]
            /\ UNCHANGED <<rooms_ref, now>>

\* POST /rooms/add handled. The rooms collection holds at most MaxRooms documents.
AddRoom ==
    \E data \in AddRoomData :
        \E outcome \in {add_room(rooms_ref, data)} :
            /\ Cardinality(DOMAIN outcome.rooms) <= MaxRooms
            /\ rooms_ref' = outcome.rooms
            /\ last' = outcome.response
            /\ UNCHANGED <<bookings, now, handlers>>

\* The process starts (again) on the database as it is and seeds the rooms.
SeedRooms ==
    \E seeded \in {EnsureDefaultRooms(rooms_ref)} :
        /\ Cardinality(DOMAIN seeded) <= MaxRooms
        /\ rooms_ref' = seeded
        /\ UNCHANGED <<bookings, last, now, handlers>>

\* Time passes.
Tick ==
    /\ now < MaxClock
    /\ now' = now + 1
    /\ UNCHANGED <<bookings, last, rooms_ref, handlers>>

\* The service: the handlers of the incoming side of the merge where both sides
\* define one, and the handlers only the HEAD side has.
Next ==
    \/ BookRoom
    \/ Approve
    \/ Reject
    \/ Delete

Spec == Init /\ [][Next]_vars

\* The HEAD side of the merge.
NextHEAD ==
    \/ BookRoomHead
    \/ ApproveHead
    \/ RejectHead
    \/ Delete

SpecHEAD == Init /\ [][NextHEAD]_vars

\* Bookings are only created and approved.
NextCreateApprove ==
    \/ BookRoom
    \/ Approve

SpecCreateApprove == Init /\ [][NextCreateApprove]_vars

\* The room registry: rooms are seeded and added on a database that starts
\* empty, while bookings are made.
NextRooms ==
    \/ SeedRooms
    \/ AddRoom
    \/ BookRoomFew

SpecRooms == InitEmpty /\ [][NextRooms]_vars

\* Booking requests served concurrently, each in two steps, while bookings
\* are approved.
NextConcurrent ==
    \/ BookRoomCheck
    \/ BookRoomWrite
    \/ Approve

SpecConcurrent == Init /\ [][NextConcurrent]_vars

\* The service while time passes: a few bookings are created, decided and
\* deleted at different times.
NextTimed ==
    \/ BookRoomFew
    \/ Approve
    \/ Reject
    \/ Delete
    \/ Tick

SpecTimed == Init /\ [][NextTimed]_vars

\* --------------------------------------------------------------- claims ----
ApprovedOnly == {b \in DOMAIN bookings : bookings[b].status = "approved"}

\* The conflict of the specification: booking b is approved, shares a room with
\* the request q, and overlaps it in dates (inclusive) and in times (half-open).
SharesRoom(b, q) == b.rooms \cap q.rooms # {}
DatesOverlap(b, q) == b.startDate <= q.endDate /\ b.endDate >= q.startDate
TimesOverlap(b, q) == q.startTime < b.endTime /\ q.endTime > b.startTime
Conflicts(b, q) ==
    b.status = "approved" /\ SharesRoom(b, q) /\ DatesOverlap(b, q) /\ TimesOverlap(b, q)

\* Requests that name at least one room.
RoomRequests == {q \in BookingData : q.rooms # {}}

\* The availability check on a request.
Check(store, q, fault) ==
    check_room_availability(store, q.rooms, q.startDate, q.endDate,
                            q.startTime, q.endTime, fault)
Check_HEAD(store, q, fault) ==
    check_room_availability_HEAD(store, q.rooms, q.startDate, q.endDate,
                                 q.startTime, q.endTime, fault)

\* Documents present before and after a step.
Kept == DOMAIN bookings \cap DOMAIN bookings'
\* Documents a step creates.
Created == DOMAIN bookings' \ DOMAIN bookings

\* C1 (as stated): no two distinct approved bookings that share a room overlap
\* in both date range and time range.
C1_NoApprovedOverlap ==
    \A a \in DOMAIN bookings, b \in DOMAIN bookings :
        (a # b /\ bookings[a].status = "approved") => ~Conflicts(bookings[b], bookings[a])

\* C1 (amended): a booking is created only when no booking approved at that
\* moment shares a room with it and overlaps it in date and time, and a pair of
\* overlapping approved bookings never arises in a step other than an approve.
C1_NoConflictAtCreation ==
    [][/\ \A new \in Created : \A b \in DOMAIN bookings :
              ~Conflicts(bookings[b], bookings'[new])
       /\ (C1_NoApprovedOverlap /\ last'.op # "approve") => C1_NoApprovedOverlap']_vars

\* C1 witness: a booking was created next to an approved booking of the same
\* room and dates whose time range ends where the new one starts.
C1_Witness ==
    /\ last.op = "book" /\ last.success
    /\ \E b \in DOMAIN bookings \ {last.id} :
          /\ bookings[b].status = "approved"
          /\ SharesRoom(bookings[b], bookings[last.id])
          /\ DatesOverlap(bookings[b], bookings[last.id])
          /\ bookings[b].endTime = bookings[last.id].startTime

C3_Book(store, q, verdict, outcome) ==
    IF ~verdict.available
    THEN /\ ~outcome.response.success
         /\ outcome.response.error = verdict.message
         /\ outcome.bookings = store
    ELSE /\ outcome.response.success
         /\ \E new \in DOMAIN outcome.bookings \ DOMAIN store :
               /\ DOMAIN outcome.bookings = DOMAIN store \cup {new}
               /\ outcome.response.id = new
               /\ outcome.bookings[new] =
                     [rooms |-> q.rooms, startDate |-> q.startDate, endDate |-> q.endDate,
                      startTime |-> q.startTime, endTime |-> q.endTime, status |-> "pending",
                      createdAt |-> now]
         /\ \A b \in DOMAIN store : outcome.bookings[b] = store[b]

C3_CreateBooking ==
    /\ \A q \in RoomRequests, fault \in Faults :
          C3_Book(bookings, q, Check(bookings, q, fault), book_room(bookings, q, fault))
    /\ \A q \in RoomRequests :
          C3_Book(bookings, q, Check_HEAD(bookings, q, "none"),
                  book_room_HEAD(bookings, q, "none"))

\* C3 witness: with a booking in the collection a request was refused for a
\* conflict.
C3_Witness ==
    /\ last.op = "book" /\ last.code = 400
    /\ last.error = "already booked for overlapping time"
    /\ \E b \in DOMAIN bookings : bookings[b].status = "pending"

\* C4 (as stated): the status of a booking changes only from pending.
C4_ChangesOnlyFromPending ==
    [][\A b \in Kept :
          bookings'[b].status # bookings[b].status => bookings[b].status = "pending"]_vars

\* C4 (amended): the status of a booking changes only by an approve or a reject
\* of its id, to approved or to rejected respectively, from whatever status it
\* has: pending, or the other decision (approved -> rejected and
\* rejected -> approved both happen).
C4_ChangesOnlyByDecision ==
    [][\A b \in Kept :
          bookings'[b].status # bookings[b].status =>
              /\ last'.id = b /\ last'.success
              /\ \/ last'.op = "approve" /\ bookings'[b].status = "approved"
                 \/ last'.op = "reject" /\ bookings'[b].status = "rejected"
              /\ bookings'[b] = [bookings[b] EXCEPT !.status = bookings'[b].status]]_vars

\* C4 witness: a booking was rejected while another booking is approved.
C4_Witness ==
    /\ last.op = "reject" /\ last.success
    /\ bookings[last.id].status = "rejected"
    /\ \E b \in DOMAIN bookings : bookings[b].status = "approved"

\* C5: approve on the id of an existing booking succeeds and leaves the booking
\* approved, whatever its status and whatever else is approved; so does approve
\* after reject.
C5_Approved(store, id, outcome) ==
    /\ outcome.response.success
    /\ DOMAIN outcome.bookings = DOMAIN store
    /\ outcome.bookings[id].status = "approved"

C5_ApproveUnconditional ==
    \A id \in DOMAIN bookings :
        /\ C5_Approved(bookings, id, approve_booking(bookings, id))
        /\ C5_Approved(bookings, id, approve_booking_HEAD(bookings, id))
        /\ C5_Approved(bookings, id,
              approve_booking(reject_booking(bookings, id).bookings, id))
        /\ C5_Approved(bookings, id,
              approve_booking_HEAD(reject_booking_HEAD(bookings, id).bookings, id))

\* C5 witness: a booking was approved although an approved booking conflicts
\* with it.
C5_Witness ==
    /\ last.op = "approve" /\ last.success
    /\ bookings[last.id].status = "approved"
    /\ \E b \in DOMAIN bookings \ {last.id} : Conflicts(bookings[b], bookings[last.id])

\* C6: a booking that is approved or rejected is never pending again, and a
\* pending booking is one that was pending before the step or that a booking
\* request has just created.
C6_NeverPendingAgain ==
    [][/\ \A b \in Kept :
              bookings[b].status # "pending" => bookings'[b].status # "pending"
       /\ \A b \in Created :
              bookings'[b].status = "pending" => last'.op = "book"]_vars

\* C6 witness: a booking was approved or rejected and is decided, next to a
\* booking that is still pending.
C6_Witness ==
    /\ last.op \in {"approve", "reject"} /\ last.success
    /\ bookings[last.id].status \in {"approved", "rejected"}
    /\ \E b \in DOMAIN bookings : bookings[b].status = "pending"

\* C7: a delete of an id the collection does not hold does not succeed and
\* leaves the collection as it was.
C7_DeleteUnknownFails ==
    [][(last'.op = "delete" /\ last'.id # NoId /\ last'.id \notin DOMAIN bookings)
          => (~last'.success /\ bookings' = bookings)]_vars

\* C8: approve and reject of an id the collection does not hold end in an
\* error, create no document and change none.
C8_Unknown(store, outcome) ==
    /\ ~outcome.response.success
    /\ outcome.response.code >= 400
    /\ outcome.bookings = store

C8_UnknownIdFails ==
    \A id \in (Ids \cup {MaxBookings + 1}) \ DOMAIN bookings :
        /\ C8_Unknown(bookings, approve_booking(bookings, id))
        /\ C8_Unknown(bookings, reject_booking(bookings, id))
        /\ C8_Unknown(bookings, approve_booking_HEAD(bookings, id))
        /\ C8_Unknown(bookings, reject_booking_HEAD(bookings, id))

\* C8 witness: an approve or reject of an unknown id ended in an error while
\* the collection holds a booking.
C8_Witness ==
    /\ last.op \in {"approve", "reject"}
    /\ last.id \notin DOMAIN bookings /\ last.code = 500
    /\ bookings # EmptyDict

\* C9: delete of an existing id removes that document whatever its status and
\* changes no other; after it the check answers as if the booking had never
\* been: only the other approved bookings make a request unavailable.
C9_DeleteRemoves ==
    \A id \in DOMAIN bookings :
        \E outcome \in {delete_booking(bookings, id)} :
            /\ outcome.response.success
            /\ DOMAIN outcome.bookings = DOMAIN bookings \ {id}
            /\ \A b \in DOMAIN outcome.bookings : outcome.bookings[b] = bookings[b]
            /\ \A q \in RoomRequests :
                  Check(outcome.bookings, q, "none").available
                      <=> ~\E b \in DOMAIN bookings \ {id} : Conflicts(bookings[b], q)

\* C9 witness: the first booking was deleted and the second is still there.
C9_Witness ==
    /\ last.op = "delete" /\ last.success /\ last.id = 1
    /\ DOMAIN bookings = {2}

\* C10: when the query of the check fails the check does not answer available,
\* and the booking request that meets the failure writes nothing.
C10_FailClosed ==
    \A q \in BookingData, fault \in Faults \ {"none"} :
        /\ ~Check(bookings, q, fault).available
        /\ book_room(bookings, q, fault).bookings = bookings
        /\ ~book_room(bookings, q, fault).response.success
        /\ q.rooms # {} =>
              /\ "available" \notin DOMAIN Check_HEAD(bookings, q, fault)
              /\ book_room_HEAD(bookings, q, fault).bookings = bookings
              /\ ~book_room_HEAD(bookings, q, fault).response.success

\* C10 witness: a booking request met a missing index and was refused while the
\* collection holds an approved booking.
C10_Witness ==
    /\ last.op = "book" /\ last.fault = "FailedPrecondition" /\ ~last.success
    /\ \E b \in DOMAIN bookings : bookings[b].status = "approved"

\* Requests that name no room.
NoRoomRequests == {q \in BookingData : q.rooms = {}}

\* C11: for a request that names no room the check answers available, whatever
\* the collection holds (the store serving the query).
C11_NoRoomsAvailable ==
    \A q \in NoRoomRequests :
        /\ Check(bookings, q, "none").available
        /\ Check_HEAD(bookings, q, "none").available

\* Request bodies that lack the rooms, the date range or the time range.
Without(d, keys) == [k \in DOMAIN d \ keys |-> d[k]]
IncompleteRequests ==
    {Without(d, keys) :
        d \in BookingData,
        keys \in {{"rooms"}, {"startDate", "endDate"}, {"startTime", "endTime"}}}

\* C12: a booking request whose room list is empty or missing, or whose date
\* range or time range is missing, is refused as a bad request and writes
\* nothing, so every stored booking names at least one room.
C12_Refused(store, outcome) ==
    /\ ~outcome.response.success
    /\ outcome.response.code = 400
    /\ outcome.bookings = store

C12_CreateValidates ==
    /\ \A d \in IncompleteRequests \cup NoRoomRequests :
          /\ C12_Refused(bookings, book_room(bookings, d, "none"))
          /\ C12_Refused(bookings, book_room_HEAD(bookings, d, "none"))
    /\ \A b \in DOMAIN bookings : bookings[b].rooms # {}

\* C13: a request that changes a collection broadcasts the change
\* notification, and a request that fails, or that names a booking the
\* collection does not hold, broadcasts none.
C13_NotifiesOnChangeOnly ==
    [][/\ (bookings' # bookings \/ rooms_ref' # rooms_ref) => last'.emitted
       /\ ~last'.success => ~last'.emitted
       /\ (last'.op \in {"approve", "reject", "delete"} /\ last'.id \notin DOMAIN bookings)
             => ~last'.emitted]_vars

\* The names of the rooms of a registry, and the default names.
RoomNamesOf(store) == {store[r].name : r \in DOMAIN store}
DefaultNames == {DEFAULT_ROOMS[i] : i \in DOMAIN DEFAULT_ROOMS}

\* C15: the seeding is idempotent. It creates a room for a default name only
\* when no room has that name, so seeding a seeded registry adds nothing; after
\* it every default name is the name of a room, and the rooms that were there
\* are as they were.
C15_SeedingIdempotent ==
    \E seeded \in {EnsureDefaultRooms(rooms_ref)} :
        /\ EnsureDefaultRooms(seeded) = seeded
        /\ DefaultNames \subseteq RoomNamesOf(seeded)
        /\ \A r \in DOMAIN rooms_ref : r \in DOMAIN seeded /\ seeded[r] = rooms_ref[r]
        /\ \A r \in DOMAIN seeded \ DOMAIN rooms_ref :
              /\ seeded[r].name \in DefaultNames \ RoomNamesOf(rooms_ref)
              /\ seeded[r].available
              /\ \A o \in DOMAIN seeded \ (DOMAIN rooms_ref \cup {r}) :
                    seeded[o].name # seeded[r].name

\* C15 witness: the seeding ran on a registry that held a room with a default
\* name and a room with another name: every default name is there and the
\* default name that was there is there once.
C15_Witness ==
    /\ rooms_ref # EmptyDict /\ rooms_ref[1].name = "ARES"
    /\ DefaultNames \subseteq RoomNamesOf(rooms_ref)
    /\ "Annex" \in RoomNamesOf(rooms_ref)
    /\ Cardinality({r \in DOMAIN rooms_ref : rooms_ref[r].name = "ARES"}) = 1

\* C16: add_room with no name or an empty name is refused as a bad request and
\* leaves the registry as it was; with a name it adds exactly one room, of that
\* name, available, under an id no room had, and changes no other room; and a
\* step of add_room changes no booking.
C16_Added(store, data, outcome) ==
    IF Get(data, "name", "") = ""
    THEN /\ ~outcome.response.success
         /\ outcome.response.code = 400
         /\ outcome.rooms = store
    ELSE /\ outcome.response.success
         /\ \E new \in DOMAIN outcome.rooms \ DOMAIN store :
               /\ DOMAIN outcome.rooms = DOMAIN store \cup {new}
               /\ outcome.response.id = new
               /\ outcome.rooms[new] = [name |-> data["name"], available |-> TRUE]
         /\ \A r \in DOMAIN store : outcome.rooms[r] = store[r]

C16_AddRoom ==
    [][/\ \A data \in AddRoomData : C16_Added(rooms_ref, data, add_room(rooms_ref, data))
       /\ (last' # last /\ last'.op = "add_room") => bookings' = bookings]_vars

\* C16 witness: with a booking in the collection a room was added under a name
\* another room already has.
C16_Witness ==
    /\ last.op = "add_room" /\ last.success
    /\ bookings # EmptyDict
    /\ \E r \in DOMAIN rooms_ref \ {last.id} : rooms_ref[r].name = rooms_ref[last.id].name

\* The request of worker thread h conflicts with request q but for the status:
\* it shares a room with it and overlaps it in dates and times.
Clashes(d, q) == SharesRoom(d, q) /\ DatesOverlap(d, q) /\ TimesOverlap(d, q)

\* Worker thread h writes its booking in this step.
Writes(h) == handlers[h].pc = "write" /\ handlers'[h].pc = "idle"

\* C17: the check and the write of a booking request are separate steps with
\* nothing to exclude one another: a request that has passed the check is
\* written at its write step whatever has been written since, so two requests
\* for the same room and overlapping times that both passed the check before
\* either wrote are both stored.
C17_WriteAfterCheckUnguarded ==
    [][\A h \in Handlers :
          Writes(h) =>
              /\ last'.op = "book" /\ last'.success
              /\ \E new \in Created :
                    /\ DOMAIN bookings' = DOMAIN bookings \cup {new}
                    /\ last'.id = new
                    /\ bookings'[new].status = "pending"
                    /\ bookings'[new].rooms = handlers[h].data.rooms
                    /\ bookings'[new].startDate = handlers[h].data.startDate
                    /\ bookings'[new].endDate = handlers[h].data.endDate
                    /\ bookings'[new].startTime = handlers[h].data.startTime
                    /\ bookings'[new].endTime = handlers[h].data.endTime
              /\ \A b \in DOMAIN bookings : bookings'[b] = bookings[b]]_vars

\* C17 witness: two worker threads hold requests for the same room and
\* overlapping times, both have passed the check and neither has written.
C17_Witness ==
    /\ Writing = Handlers
    /\ \A h \in Handlers, g \in Handlers : Clashes(handlers[h].data, handlers[g].data)
    /\ bookings = EmptyDict

\* C18 (as stated): when a booking request writes its booking, no approved
\* booking in the collection shares a room with it and overlaps it.
C18_NoConflictAtWrite ==
    [][\A h \in Handlers :
          Writes(h) =>
              \A b \in DOMAIN bookings : ~Conflicts(bookings[b], handlers[h].data)]_vars

\* C18 (amended): when a booking request passes its availability check, no
\* approved booking in the collection shares a room with it and overlaps it.
\* (The check is not repeated at the write: a booking approved between the
\* check and the write conflicts with the booking written.)
C18_NoConflictAtCheck ==
    [][\A h \in Handlers :
          (handlers[h].pc = "idle" /\ handlers'[h].pc = "write") =>
              \A b \in DOMAIN bookings : ~Conflicts(bookings[b], handlers'[h].data)]_vars

\* C18 witness: a request has passed the check next to an approved booking of
\* the same room and date that ends where the request starts, and has not
\* written yet.
C18_Witness ==
    \E h \in Writing, b \in DOMAIN bookings :
        /\ bookings[b].status = "approved"
        /\ SharesRoom(bookings[b], handlers[h].data)
        /\ DatesOverlap(bookings[b], handlers[h].data)
        /\ bookings[b].endTime = handlers[h].data.startTime

\* C19: an approve or a reject changes nothing but the status of the booking
\* it names: the rooms, dates, times and creation time of that booking, every
\* other booking and the room registry stay as they were; and no step changes
\* the creation time of a booking.
C19_DecisionFrame ==
    [][/\ last'.op \in {"approve", "reject"} =>
              /\ DOMAIN bookings' = DOMAIN bookings
              /\ \A b \in DOMAIN bookings :
                    /\ b # last'.id => bookings'[b] = bookings[b]
                    /\ bookings'[b].rooms = bookings[b].rooms
                    /\ bookings'[b].startDate = bookings[b].startDate
                    /\ bookings'[b].endDate = bookings[b].endDate
                    /\ bookings'[b].startTime = bookings[b].startTime
                    /\ bookings'[b].endTime = bookings[b].endTime
                    /\ bookings'[b].createdAt = bookings[b].createdAt
              /\ rooms_ref' = rooms_ref
       /\ \A b \in Kept : bookings'[b].createdAt = bookings[b].createdAt]_vars

\* C19 witness: a booking created at an earlier time was approved or rejected
\* next to a booking created later, with rooms in the registry.
C19_Witness ==
    /\ last.op \in {"approve", "reject"} /\ last.success
    /\ bookings[last.id].status \in {"approved", "rejected"}
    /\ bookings[last.id].createdAt < now
    /\ \E b \in DOMAIN bookings : bookings[b].createdAt > bookings[last.id].createdAt
    /\ rooms_ref # EmptyDict

\* C20 (as stated): for a request with rooms the two variants of the check
\* return the same availability verdict, whatever the collection holds.
C20_SameVerdict ==
    \A q \in RoomRequests, fault \in Faults :
        /\ "available" \in DOMAIN Check_HEAD(bookings, q, fault)
        /\ Check_HEAD(bookings, q, fault).available = Check(bookings, q, fault).available

\* C20 (amended): for a request with rooms the two variants of the check
\* return the same availability verdict whenever the store serves their
\* queries; when a query fails the variant with one array_contains_any query
\* returns unavailable and the variant with one query per room returns no
\* verdict: the exception leaves it.
C20_SameVerdictWhenServed ==
    \A q \in RoomRequests :
        /\ "available" \in DOMAIN Check_HEAD(bookings, q, "none")
        /\ Check_HEAD(bookings, q, "none").available = Check(bookings, q, "none").available
        /\ \A fault \in Faults \ {"none"} :
              /\ ~Check(bookings, q, fault).available
              /\ "available" \notin DOMAIN Check_HEAD(bookings, q, fault)

\* C20 witness: the collection holds an approved booking of two rooms; a
\* request for both rooms that overlaps it is refused by both variants and the
\* request that starts where it ends is accepted by both.
C20_Witness ==
    \E b \in DOMAIN bookings :
        /\ bookings[b].status = "approved" /\ bookings[b].rooms = RoomNames
        /\ \E q \in RoomRequests, r \in RoomRequests :
              /\ q.rooms = RoomNames /\ TimesOverlap(bookings[b], q)
              /\ ~Check(bookings, q, "none").available
              /\ ~Check_HEAD(bookings, q, "none").available
              /\ r.rooms = RoomNames /\ DatesOverlap(bookings[b], r)
              /\ r.startTime = bookings[b].endTime
              /\ Check(bookings, r, "none").available
              /\ Check_HEAD(bookings, r, "none").available

====
